---- MODULE Spec2Model ----
(***************************************************************************)
(* A model of web3-proxy's request path.                                   *)
(*                                                                         *)
(*   rpcs/request.rs   OpenRequestHandle (new, request), save_revert       *)
(*   frontend/mod.rs   rate_limit_by_ip, rate_limit_by_key                 *)
(*                                                                         *)
(* Option<T> values are sequences of length at most one: None is <<>> and  *)
(* Some(x) is <<x>>.  Instants are natural numbers of seconds.             *)
(***************************************************************************)
EXTENDS Integers, Sequences, FiniteSets, TLC

VARIABLES
    now,              \* the clock read by Instant::now()
    handles,          \* the OpenRequestHandles, by handle id
    hard_limit_until, \* Web3Rpc::hard_limit_until of every upstream
    new_head_client,  \* Web3Rpc::new_head_client of every upstream
    active_in_flight, \* the upstream's count of requests in flight
    tasks,            \* by handle id, the save_revert future its latest call spawned
    revert_log,       \* the rows of the revert_log table
    last,             \* what the latest finished call of request() returned
    rate_limiter,     \* app.rate_limiter(): the external store's client, if configured
    user_keys,        \* the rows of the user_keys table
    bucket,           \* the external store: tokens used this period, by key
    admitted,         \* requests let through this period, by client
    resp,             \* what the latest rate_limit_by_ip / rate_limit_by_key returned
    cache,            \* the response cache: a set of entries
    callers,          \* the callers of the cache, by caller
    dispatched,       \* the number of upstream dispatches made for the cache
    route,            \* the routed call: its attempts and its result
    eligible,         \* whether the pool holds an upstream eligible, by upstream
    usage,            \* the attempts of the routed call reported to the usage reporter
    heads,            \* the head every upstream last published, if it is fresh
    consensus,        \* the ConsensusHead the pool has published
    aged,             \* whether the published head has aged past consensus_staleness
    utc,              \* the clock read by Utc::now()
    config,           \* app.config: the invite code, if one is configured
    db_conn,          \* the tables of the primary database
    db_replica,       \* the tables as the read replica shows them
    ulids,            \* the number of Ulids generated (nonces and bearer tokens)
    got,              \* what the latest GET /user/login returned
    posts,            \* the POST /user/login requests, by poster
    logout,           \* what the latest POST /user/logout returned
    redis,            \* the store behind redis_conn: a user id by bearer cache key
    stats,            \* what the latest get_user_id_from_params returned
    error_count,      \* JsonRpcErrorCount.0: the counter of the metric
    measured,         \* the result a measured call has returned, by thread, until on_result
    on_results        \* the on_result calls since the latest clear, counted by result

\* rpcs/request.rs
requestVars == <<now, handles, hard_limit_until, new_head_client, active_in_flight,
                 tasks, revert_log, last>>

\* frontend/mod.rs
frontendVars == <<rate_limiter, user_keys, bucket, admitted, resp>>

\* The response cache (section 4.4).
cacheVars == <<cache, callers, dispatched>>

\* The request router (sections 4.3 and 4.5).
routerVars == <<route, eligible, usage>>

\* The upstream pool's consensus (section 4.3).
poolVars == <<heads, consensus, aged>>

\* frontend/users/authentication.rs
authVars == <<utc, config, db_conn, db_replica, ulids, got, posts, logout>>

\* user_queries.rs
queryVars == <<redis, stats>>

\* The user endpoints.
usersVars == <<authVars, queryVars>>

\* metered/jsonrpc_error_count.rs
metricVars == <<error_count, measured, on_results>>

\* Everything behind the frontend's rate limits.
coreVars == <<cacheVars, routerVars, poolVars, usersVars, metricVars>>

notCacheVars == <<requestVars, frontendVars, routerVars, poolVars, usersVars, metricVars>>

notRouterVars == <<requestVars, frontendVars, cacheVars, poolVars, usersVars, metricVars>>

notPoolVars == <<requestVars, frontendVars, cacheVars, routerVars, usersVars, metricVars>>

notAuthVars == <<requestVars, frontendVars, cacheVars, routerVars, poolVars, queryVars, metricVars>>

notQueryVars == <<requestVars, frontendVars, cacheVars, routerVars, poolVars, authVars, metricVars>>

notMetricVars == <<requestVars, frontendVars, cacheVars, routerVars, poolVars, usersVars>>

vars == <<requestVars, frontendVars, coreVars>>

---------------------------------------------------------------------------
\* Bounds of the model.

MaxHandles == 2

MaxTime == 2

MaxRows == 1

MaxAdmitted == 3

PublicBudget == 2

---------------------------------------------------------------------------
\* Option<T>

None == <<>>

Some(x) == <<x>>

IsSome(o) == o # <<>>

---------------------------------------------------------------------------
\* The inputs.

Handles == 1..MaxHandles

\* The upstreams.  Whether an upstream is configured with a hard limit (its
\* hard_limit_until is Some) is drawn in Init.
Rpcs == {"a"}

\* Web3Provider
Providers == {"Http", "Ws", "Both"}

\* RequestRevertHandler
RequestRevertHandler == {"TraceLevel", "DebugLevel", "ErrorLevel", "WarnLevel", "Save"}

Methods == {"eth_call", "eth_estimateGas", "eth_sendRawTransaction"}

\* The methods whose reverts may be saved.
SaveMethods == {"eth_call", "eth_estimateGas"}

\* log_revert_chance and the drawn value, in hundredths.
Chances == {0, 50, 100}

Draws == {0, 25, 50, 75, 100}

\* Authorization: the fields request() and save_revert() read.
Authorizations ==
    [rpc_secret_key_id : {None, Some(1)}, db_conn : BOOLEAN, log_revert_chance : Chances]

\* An error message is a sequence of phrases.
Phrases == {"execution reverted", "limit", "request", "other"}

\* Messages of at most two phrases: enough to tell a message that starts with
\* a phrase from one that holds it further on.
Messages ==
    {<<>>} \cup {<<p>> : p \in Phrases} \cup {<<p, q>> : p \in Phrases, q \in Phrases}

\* The transport a provider sends a request over.
TransportOf(provider) == IF provider = "Ws" THEN "Ws" ELSE "Http"

OkResponse == [kind |-> "Ok", transport |-> "-", inner |-> "-", message |-> <<>>]

\* Result<R, ProviderError> as the provider can return it: Ok, a
\* JsonRpcClientError wrapping the transport's error (a JsonRpcError with a
\* message, or another client error without one), or another ProviderError.
Responses(provider, messages) ==
    {OkResponse}
    \cup {[kind |-> "JsonRpcClientError", transport |-> TransportOf(provider),
           inner |-> "JsonRpcError", message |-> m] : m \in messages}
    \cup {[kind |-> "JsonRpcClientError", transport |-> TransportOf(provider),
           inner |-> "Other", message |-> <<>>]}
    \cup {[kind |-> "OtherProviderError", transport |-> "-", inner |-> "-", message |-> <<>>]}

---------------------------------------------------------------------------
\* Strings.

StartsWith(msg, phrase) == Len(msg) > 0 /\ msg[1] = phrase

Contains(msg, phrase) == \E i \in 1..Len(msg) : msg[i] = phrase

---------------------------------------------------------------------------
\* request(): the revert handler in effect for an error.

\* A handler in effect that leaves the method out.
RevertHandlerInEffectAnyMethod(revert_handler, method, authorization, draw) ==
    IF revert_handler = "Save"
    THEN IF authorization.db_conn
         THEN IF authorization.log_revert_chance = 0
              THEN "TraceLevel"
              ELSE IF authorization.log_revert_chance = 100
                   THEN revert_handler
                   ELSE IF draw < authorization.log_revert_chance
                        THEN "TraceLevel"
                        ELSE revert_handler
         ELSE "TraceLevel"
    ELSE revert_handler

RevertHandlerInEffect(revert_handler, method, authorization, draw) ==
    IF revert_handler = "Save"
    THEN IF method \notin SaveMethods
         THEN "TraceLevel"
         ELSE IF authorization.db_conn
              THEN IF authorization.log_revert_chance = 0
                   THEN "TraceLevel"
                   ELSE IF authorization.log_revert_chance = 100
                        THEN revert_handler
                        ELSE IF draw < authorization.log_revert_chance
                             THEN "TraceLevel"
                             ELSE revert_handler
              ELSE "TraceLevel"
    ELSE revert_handler

\* request(): the message of a JSON-RPC error, by provider kind.
ErrorMessage(provider, err) ==
    IF provider = "Both"
    THEN IF err.transport = "Http" /\ err.inner = "JsonRpcError" THEN Some(err.message)
         ELSE IF err.transport = "Ws" /\ err.inner = "JsonRpcError" THEN Some(err.message)
         ELSE None
    ELSE IF provider = "Http"
    THEN IF err.transport = "Http" /\ err.inner = "JsonRpcError" THEN Some(err.message)
         ELSE None
    ELSE IF err.transport = "Ws" /\ err.inner = "JsonRpcError" THEN Some(err.message)
         ELSE None

\* A classification that looks for `execution reverted` anywhere.
MessageTypeContains(msg) ==
    IF Contains(msg, "execution reverted") THEN "Revert"
    ELSE IF Contains(msg, "limit") \/ Contains(msg, "request") THEN "RateLimit"
    ELSE "Ok"

\* request(): ResponseTypes of a message.
MessageType(msg) ==
    IF StartsWith(msg, "execution reverted") THEN "Revert"
    ELSE IF Contains(msg, "limit") \/ Contains(msg, "request") THEN "RateLimit"
    ELSE "Ok"

\* request(): ResponseTypes of an error response.
ResponseType(provider, err) ==
    IF err.kind = "JsonRpcClientError"
    THEN LET msg == ErrorMessage(provider, err)
         IN  IF IsSome(msg) THEN MessageType(msg[1]) ELSE "Ok"
    ELSE "Ok"

---------------------------------------------------------------------------
\* The state after construction.

NoHandle ==
    [pc |-> "free", conn |-> "-", logged |-> FALSE,
     provider |-> "-", response |-> OkResponse, retry_at |-> 0]

\* Nothing has returned since the latest handle was made.
NoCall == [returned |-> FALSE, panicked |-> FALSE, conn |-> "-", provider |-> "-",
           response |-> OkResponse, response_type |-> "-", result |-> OkResponse,
           in_effect |-> "-", sampled |-> None]

\* No call of the frontend has been made.
NoResp == [fn |-> "-", client |-> "-", status |-> 0, retry_after |-> None,
           db |-> "-", rows |-> {}, throttle |-> None, store |-> "-"]

\* The tables of the database, empty.
NoRows == [pending_login |-> {}, user |-> {}, rpc_key |-> {}, balance |-> {},
           referee |-> {}, login |-> {}]

\* The tables a handler reads from the read replica.
Replica(db) == [pending_login |-> db.pending_login, user |-> db.user]

\* The cache is not in use.
CacheIdle ==
    /\ cache = {}
    /\ callers = <<>>
    /\ dispatched = 0

\* The router is not in use.
RouterIdle ==
    /\ route = <<>>
    /\ eligible = <<>>
    /\ usage = <<>>

\* No upstream has published a head.
PoolIdle ==
    /\ heads = <<>>
    /\ consensus = None
    /\ aged = FALSE

\* No login has been requested: the tables are empty and in sync.
AuthIdle ==
    /\ utc = 0
    /\ config = [invite_code |-> None]
    /\ db_conn = NoRows
    /\ db_replica = Replica(NoRows)
    /\ ulids = 0
    /\ got = None
    /\ posts = <<>>
    /\ logout = None

\* No statistics have been queried.
QueryIdle ==
    /\ redis = <<>>
    /\ stats = None

UsersIdle == AuthIdle /\ QueryIdle

\* No call has been measured.
MetricIdle ==
    /\ error_count = 0
    /\ measured = <<>>
    /\ on_results = <<>>

CoreIdle == CacheIdle /\ RouterIdle /\ PoolIdle /\ UsersIdle /\ MetricIdle

FrontendIdle ==
    /\ rate_limiter = None
    /\ user_keys = {}
    /\ bucket = <<>>
    /\ admitted = <<>>
    /\ resp = NoResp

Init ==
    /\ FrontendIdle
    /\ CoreIdle
    /\ now = 0
    /\ handles = [h \in Handles |-> NoHandle]
    /\ hard_limit_until \in [Rpcs -> {None, Some(0)}]
    /\ new_head_client = [r \in Rpcs |-> None]
    /\ active_in_flight = [r \in Rpcs |-> 0]
    /\ tasks = [h \in Handles |-> None]
    /\ revert_log = <<>>
    /\ last = NoCall

---------------------------------------------------------------------------
\* The environment.

\* Time passes.
Tick ==
    /\ now < MaxTime
    /\ now' = now + 1
    /\ UNCHANGED <<handles, hard_limit_until, new_head_client, active_in_flight,
                   tasks, revert_log, last,
                   frontendVars, coreVars>>

\* The upstream's connection task installs or removes its provider.
SetProvider(r, p) ==
    /\ new_head_client[r] # p
    /\ new_head_client' = [new_head_client EXCEPT ![r] = p]
    /\ UNCHANGED <<now, handles, hard_limit_until, active_in_flight, tasks,
                   revert_log, last,
                   frontendVars, coreVars>>

---------------------------------------------------------------------------
\* OpenRequestHandle

\* OpenRequestHandle::new.  The model uses a handle id again once the
\* save_revert its latest call spawned has run, and makes no handle once
\* revert_log holds MaxRows rows.
New(h, c) ==
    /\ handles[h].pc = "free"
    /\ tasks[h] = None
    /\ Len(revert_log) < MaxRows
    /\ handles' = [handles EXCEPT ![h] = [NoHandle EXCEPT !.pc = "open", !.conn = c]]
    /\ last' = NoCall
    /\ UNCHANGED <<now, hard_limit_until, new_head_client, active_in_flight, tasks,
                   revert_log,
                   frontendVars, coreVars>>

\* The handle is dropped unused, or the future of request() is dropped at one
\* of its await points.
Drop(h) ==
    /\ handles[h].pc \in {"open", "waiting", "sleeping", "sent"}
    /\ handles' = [handles EXCEPT ![h] = NoHandle]
    /\ UNCHANGED <<now, hard_limit_until, new_head_client, active_in_flight, tasks,
                   revert_log, last,
                   frontendVars, coreVars>>

\* request() is called.  With an unlocked_provider the request is sent at
\* once; without one the loop that waits for new_head_client is entered.
Request(h, unlocked_provider) ==
    /\ handles[h].pc = "open"
    /\ handles' = [handles EXCEPT ![h] =
           IF IsSome(unlocked_provider)
           THEN [@ EXCEPT !.pc = "sent", !.provider = unlocked_provider[1]]
           ELSE [@ EXCEPT !.pc = "waiting"]]
    /\ UNCHANGED <<now, hard_limit_until, new_head_client, active_in_flight, tasks,
                   revert_log, last,
                   frontendVars, coreVars>>

\* One iteration of the loop: new_head_client holds a provider and the
\* request is sent, or the iteration logs once and goes to sleep for 100 ms.
WaitForProvider(h) ==
    /\ handles[h].pc = "waiting"
    /\ LET found == new_head_client[handles[h].conn]
       IN  handles' = [handles EXCEPT ![h] =
                IF IsSome(found)
                THEN [@ EXCEPT !.pc = "sent", !.provider = found[1], !.logged = FALSE]
                ELSE [@ EXCEPT !.pc = "sleeping", !.logged = TRUE]]
    /\ UNCHANGED <<now, hard_limit_until, new_head_client, active_in_flight, tasks,
                   revert_log, last,
                   frontendVars, coreVars>>

\* sleep(Duration::from_millis(100)) is over: the loop tests provider, which
\* is still None, and starts its next iteration.
Sleep(h) ==
    /\ handles[h].pc = "sleeping"
    /\ handles' = [handles EXCEPT ![h].pc = "waiting"]
    /\ UNCHANGED <<now, hard_limit_until, new_head_client, active_in_flight, tasks,
                   revert_log, last,
                   frontendVars, coreVars>>

\* Whether request() comes to read log_revert_chance: the handler is Save,
\* the method is one whose reverts are saved, and there is a database.
Samples(revert_handler, method, authorization) ==
    /\ revert_handler = "Save"
    /\ method \in SaveMethods
    /\ authorization.db_conn

\* The lines of request() from the cooldown's send_replace to the return,
\* for an error response: the handler in effect logs or spawns save_revert
\* (unwrapping the parsed params), and the response is returned.  `self` is
\* consumed, so the handle is dropped when the call returns or unwinds.
FinishError(h, response, response_type, method, revert_handler, authorization, params_ok, draw) ==
    LET hd == handles[h]
        in_effect == RevertHandlerInEffect(revert_handler, method, authorization, draw)
        panics == in_effect = "Save" /\ ~params_ok
        spawns == in_effect = "Save" /\ params_ok
        task == [authorization |-> authorization, method |-> method,
                 revert_handler |-> revert_handler, response_type |-> response_type]
        sampled == IF Samples(revert_handler, method, authorization)
                   THEN Some([log_revert_chance |-> authorization.log_revert_chance,
                              draw |-> draw])
                   ELSE None
    IN  /\ tasks' = IF spawns THEN [tasks EXCEPT ![h] = Some(task)] ELSE tasks
        /\ last' = [returned |-> ~panics, panicked |-> panics, conn |-> hd.conn,
                    provider |-> hd.provider, response |-> response,
                    response_type |-> response_type,
                    result |-> IF panics THEN OkResponse ELSE response,
                    in_effect |-> in_effect, sampled |-> sampled]
        /\ handles' = [handles EXCEPT ![h] = NoHandle]

\* The provider answers Ok: request() returns the response as it is.
RespondOk(h) ==
    /\ handles[h].pc = "sent"
    /\ last' = [returned |-> TRUE, panicked |-> FALSE, conn |-> handles[h].conn,
                provider |-> handles[h].provider, response |-> OkResponse,
                response_type |-> "-", result |-> OkResponse,
                in_effect |-> "-", sampled |-> None]
    /\ handles' = [handles EXCEPT ![h] = NoHandle]
    /\ UNCHANGED <<now, hard_limit_until, new_head_client, active_in_flight, tasks,
                   revert_log,
                   frontendVars, coreVars>>

\* A retry_at that leaves the second out.
RetryAtNow(t) == t

\* Instant::now() + Duration::from_secs(1)
RetryAt(t) == t + 1

\* Whether request() is to replace the upstream's hard_limit_until.
SetsCooldown(response_type, limit) == response_type = "RateLimit" /\ IsSome(limit)

\* The arguments of a call.  An argument request() does not read on the path
\* taken stands for all its values: the method and the authorization are read
\* only under the Save handler, the random number only where the chance is
\* neither 0 nor 1, the parsed params only where the revert is saved.

AnyProvider == {None} \cup {Some(k) : k \in Providers}

Anonymous == [rpc_secret_key_id |-> None, db_conn |-> FALSE, log_revert_chance |-> 0]

MethodsOf(revert_handler) ==
    IF revert_handler = "Save" THEN Methods ELSE {"eth_call"}

AuthorizationsOf(revert_handler) ==
    IF revert_handler = "Save" THEN Authorizations ELSE {Anonymous}

DrawsOf(revert_handler, method, authorization) ==
    IF /\ revert_handler = "Save"
       /\ method \in SaveMethods
       /\ authorization.db_conn
       /\ authorization.log_revert_chance \notin {0, 100}
    THEN Draws
    ELSE {0}

ParamsOf(revert_handler) == IF revert_handler = "Save" THEN BOOLEAN ELSE {TRUE}

\* The provider answers with a rate limit error and the upstream has a
\* hard_limit_until: request() reads the clock (retry_at) and is about to
\* send_replace.
RespondRateLimit(h, messages) ==
    /\ handles[h].pc = "sent"
    /\ \E response \in Responses(handles[h].provider, messages) \ {OkResponse} :
          /\ SetsCooldown(ResponseType(handles[h].provider, response),
                          hard_limit_until[handles[h].conn])
          /\ handles' = [handles EXCEPT ![h].pc = "limit", ![h].response = response,
                                        ![h].retry_at = RetryAt(now)]
    /\ UNCHANGED <<now, hard_limit_until, new_head_client, active_in_flight, tasks,
                   revert_log, last,
                   frontendVars, coreVars>>

\* The rate-limited call replaces hard_limit_until by the retry_at it read,
\* and goes on to the end of request().
SendReplace(h, handlers) ==
    /\ handles[h].pc = "limit"
    /\ hard_limit_until' =
           [hard_limit_until EXCEPT ![handles[h].conn] = Some(handles[h].retry_at)]
    /\ \E revert_handler \in handlers :
       \E method \in MethodsOf(revert_handler),
          authorization \in AuthorizationsOf(revert_handler),
          params_ok \in ParamsOf(revert_handler) :
       \E draw \in DrawsOf(revert_handler, method, authorization) :
          FinishError(h, handles[h].response, "RateLimit", method, revert_handler,
                      authorization, params_ok, draw)
    /\ UNCHANGED <<now, new_head_client, active_in_flight, revert_log,
                   frontendVars, coreVars>>

\* The provider answers with any other error: request() handles it to its end.
RespondError(h, handlers, messages) ==
    /\ handles[h].pc = "sent"
    /\ \E response \in Responses(handles[h].provider, messages) \ {OkResponse} :
          /\ ~SetsCooldown(ResponseType(handles[h].provider, response),
                           hard_limit_until[handles[h].conn])
          /\ \E revert_handler \in handlers :
             \E method \in MethodsOf(revert_handler),
                authorization \in AuthorizationsOf(revert_handler),
                params_ok \in ParamsOf(revert_handler) :
             \E draw \in DrawsOf(revert_handler, method, authorization) :
                FinishError(h, response, ResponseType(handles[h].provider, response),
                            method, revert_handler, authorization, params_ok, draw)
    /\ UNCHANGED <<now, hard_limit_until, new_head_client, active_in_flight, revert_log,
                   frontendVars, coreVars>>

---------------------------------------------------------------------------
\* Authorization::save_revert, run by the runtime some time after the spawn.

\* The rows save_revert adds to revert_log.  `call` is not a column: it
\* records the handler and the authorization of the call the row is of.
SaveRevertRows(task, save_ok) ==
    IF ~IsSome(task.authorization.rpc_secret_key_id) THEN <<>>
    ELSE IF ~task.authorization.db_conn THEN <<>>
    ELSE IF ~save_ok THEN <<>>
    ELSE <<[rpc_key_id |-> task.authorization.rpc_secret_key_id[1],
            method |-> task.method,
            call |-> [revert_handler |-> task.revert_handler,
                      db_conn |-> task.authorization.db_conn,
                      rpc_secret_key_id |-> task.authorization.rpc_secret_key_id]]>>

SaveRevert(h, save_ok) ==
    /\ IsSome(tasks[h])
    /\ LET rows == SaveRevertRows(tasks[h][1], save_ok)
       IN  /\ Len(revert_log) + Len(rows) <= MaxRows
           /\ revert_log' = revert_log \o rows
    /\ tasks' = [tasks EXCEPT ![h] = None]
    /\ UNCHANGED <<now, handles, hard_limit_until, new_head_client, active_in_flight,
                   last,
                   frontendVars, coreVars>>

---------------------------------------------------------------------------
\* One call at a time, under every handler.

OneHandle == {1}

Next ==
    \/ Tick
    \/ \E r \in Rpcs, p \in AnyProvider : SetProvider(r, p)
    \/ \E h \in OneHandle, c \in Rpcs : New(h, c)
    \/ \E h \in OneHandle : Drop(h)
    \/ \E h \in OneHandle, p \in AnyProvider : Request(h, p)
    \/ \E h \in OneHandle : WaitForProvider(h)
    \/ \E h \in OneHandle : Sleep(h)
    \/ \E h \in OneHandle : RespondOk(h)
    \/ \E h \in OneHandle : RespondRateLimit(h, Messages)
    \/ \E h \in OneHandle : SendReplace(h, RequestRevertHandler)
    \/ \E h \in OneHandle : RespondError(h, RequestRevertHandler, Messages)
    \/ \E h \in OneHandle, save_ok \in BOOLEAN : SaveRevert(h, save_ok)

Spec == Init /\ [][Next]_vars

---------------------------------------------------------------------------
\* Concurrent calls on an upstream whose provider is Http, under the handlers
\* that only log, with the one-phrase messages.

LogHandlers == RequestRevertHandler \ {"Save"}

HttpOrNone == {None, Some("Http")}

ShortMessages == {<<p>> : p \in Phrases}

NextConc ==
    \/ Tick
    \/ \E r \in Rpcs, p \in HttpOrNone : SetProvider(r, p)
    \/ \E h \in Handles, c \in Rpcs : New(h, c)
    \/ \E h \in Handles : Drop(h)
    \/ \E h \in Handles, p \in HttpOrNone : Request(h, p)
    \/ \E h \in Handles : WaitForProvider(h)
    \/ \E h \in Handles : Sleep(h)
    \/ \E h \in Handles : RespondOk(h)
    \/ \E h \in Handles : RespondRateLimit(h, ShortMessages)
    \/ \E h \in Handles : SendReplace(h, LogHandlers)
    \/ \E h \in Handles : RespondError(h, LogHandlers, ShortMessages)

SpecConc == Init /\ [][NextConc]_vars

---------------------------------------------------------------------------
\* One call at a time under the handlers that only log, on a runtime that
\* keeps polling the call and with a provider that answers every request it
\* is sent.  Whether the upstream ever gets a provider, and whether the
\* caller drops the call, is left open.

NextLive ==
    \/ Tick
    \/ \E r \in Rpcs, p \in HttpOrNone : SetProvider(r, p)
    \/ \E h \in OneHandle, c \in Rpcs : New(h, c)
    \/ \E h \in OneHandle : Drop(h)
    \/ \E h \in OneHandle, p \in HttpOrNone : Request(h, p)
    \/ \E h \in OneHandle : WaitForProvider(h)
    \/ \E h \in OneHandle : Sleep(h)
    \/ \E h \in OneHandle : RespondOk(h)
    \/ \E h \in OneHandle : RespondRateLimit(h, ShortMessages)
    \/ \E h \in OneHandle : SendReplace(h, LogHandlers)
    \/ \E h \in OneHandle : RespondError(h, LogHandlers, ShortMessages)

\* The runtime polls a future that can go on: the loop's iterations and the
\* steps after the response.
Polled ==
    /\ WF_vars(\E h \in OneHandle : WaitForProvider(h))
    /\ WF_vars(\E h \in OneHandle : Sleep(h))
    /\ WF_vars(\E h \in OneHandle : SendReplace(h, LogHandlers))

\* The provider answers a request it has been sent.
Answered == WF_vars(\E h \in OneHandle : RespondOk(h) \/ RespondRateLimit(h, ShortMessages) \/ RespondError(h, LogHandlers, ShortMessages))

SpecLive == Init /\ [][NextLive]_vars /\ Polled /\ Answered

---------------------------------------------------------------------------
\* frontend/mod.rs

Ips == {"10.0.0.1"}

\* The api keys (Uuid) clients present.
ApiKeys == {"k1", "k2"}

Clients == Ips \cup ApiKeys

\* format!("ip:{}", ip)
IpKey(ip) == <<"ip:", ip>>

\* user_key.to_string()
UserKey(user_key) == <<user_key>>

RateLimiterKeys == {IpKey(ip) : ip \in Ips} \cup {UserKey(k) : k \in ApiKeys}

user_count_per_period == 100000

user_max_burst == user_count_per_period

user_period == 1

\* The rows of user_keys an api key can have: api_key is unique.
UserKeyRows(k) == {{}} \cup {{[api_key |-> k, active |-> a]} : a \in BOOLEAN}

\* The budget of a throttle_key call: the count per period it is given, or
\* the limiter's own default.
Budget(count_per_period) ==
    IF IsSome(count_per_period) THEN count_per_period[1] ELSE PublicBudget

\* The budget every call for a key is made with.
BudgetOf(key) ==
    IF key[1] = "ip:" THEN Budget(None) ELSE Budget(Some(user_count_per_period))

\* RedisCellClient::throttle_key: Ok within the budget, an error when the
\* budget is used up and when the store cannot be reached.
ThrottleKey(key, max_burst, count_per_period, period, store_ok) ==
    IF ~store_ok THEN "StoreError"
    ELSE IF bucket[key] >= Budget(count_per_period) THEN "Exhausted"
    ELSE "Ok"

\* Result::is_err
IsErr(result) == result # "Ok"

\* handle_anyhow_error(Some(status), None, err).into_response(): the status
\* and the message are all the call hands over.
ErrorResponse(status, message) ==
    [status |-> status, message |-> message, retry_after |-> None]

RateLimitByIpInit ==
    /\ rate_limiter \in {None, Some("redis")}
    /\ user_keys = {}
    /\ bucket = [key \in RateLimiterKeys |-> 0]
    /\ admitted = [c \in Clients |-> 0]
    /\ resp = NoResp

\* What a finished call leaves: the response, the counts of the store and of
\* the requests let through.  Of the call, resp keeps what the user_keys
\* query met (db, and the rows with the api key), the arguments the limiter
\* was called with if it was (throttle) and what it answered (store).
Returned(fn, client, db, status, throttle, store) ==
    /\ resp' = [fn |-> fn, client |-> client, status |-> status.status,
                retry_after |-> status.retry_after, db |-> db,
                rows |-> IF db = "-" THEN {}
                         ELSE {row \in user_keys : row.api_key = client},
                throttle |-> throttle, store |-> store]
    /\ admitted' = IF status.status = 200
                   THEN [admitted EXCEPT ![client] = @ + 1] ELSE admitted
    /\ bucket' = IF store = "Ok"
                 THEN [bucket EXCEPT ![throttle[1].key] = @ + 1] ELSE bucket

OkResult == [status |-> 200, message |-> "", retry_after |-> None]

\* rate_limit_by_ip
RateLimitByIp(ip, store_ok) ==
    /\ admitted[ip] < MaxAdmitted
    /\ LET rate_limiter_key == IpKey(ip)
           call == [key |-> rate_limiter_key, max_burst |-> None,
                    count_per_period |-> None, period |-> None]
           result == ThrottleKey(rate_limiter_key, None, None, None, store_ok)
       IN  IF IsSome(rate_limiter)
           THEN IF IsErr(result)
                THEN Returned("rate_limit_by_ip", ip, "-",
                              ErrorResponse(429, "too many requests from this ip"),
                              Some(call), result)
                ELSE Returned("rate_limit_by_ip", ip, "-", OkResult, Some(call), result)
           ELSE Returned("rate_limit_by_ip", ip, "-", OkResult, None, "-")
    /\ UNCHANGED <<requestVars, coreVars, rate_limiter, user_keys>>

\* A query that leaves the Active filter out.
FindAnyKey(user_key) ==
    IF \E row \in user_keys : row.api_key = user_key
    THEN Some(user_key) ELSE None

\* The user_keys query of rate_limit_by_key: the user of an active row with
\* this api key, if there is one.
FindActiveKey(user_key) ==
    IF \E row \in user_keys : row.api_key = user_key /\ row.active
    THEN Some(user_key) ELSE None

\* rate_limit_by_key
RateLimitByKey(user_key, db_ok, store_ok) ==
    /\ admitted[user_key] < MaxAdmitted
    /\ LET call == [key |-> UserKey(user_key), max_burst |-> Some(user_max_burst),
                    count_per_period |-> Some(user_count_per_period),
                    period |-> Some(user_period)]
           result == ThrottleKey(UserKey(user_key), Some(user_max_burst),
                                 Some(user_count_per_period), Some(user_period),
                                 store_ok)
       IN  IF ~db_ok
           THEN Returned("rate_limit_by_key", user_key, "Err",
                         ErrorResponse(500, "failed checking database for user key"),
                         None, "-")
           ELSE IF IsSome(FindActiveKey(user_key))
           THEN IF IsSome(rate_limiter)
                THEN IF IsErr(result)
                     THEN Returned("rate_limit_by_key", user_key, "Ok",
                                   ErrorResponse(429, "too many requests from this key"),
                                   Some(call), result)
                     ELSE Returned("rate_limit_by_key", user_key, "Ok", OkResult,
                                   Some(call), result)
                ELSE Returned("rate_limit_by_key", user_key, "Ok", OkResult, None, "-")
           ELSE Returned("rate_limit_by_key", user_key, "Ok",
                         ErrorResponse(403, "unknown api key"), None, "-")
    /\ UNCHANGED <<requestVars, coreVars, rate_limiter, user_keys>>

\* A key is created, activated, deactivated or deleted.
SetUserKey(k, rows) ==
    /\ rows \in UserKeyRows(k)
    /\ user_keys' = {row \in user_keys : row.api_key # k} \cup rows
    /\ user_keys' # user_keys
    /\ UNCHANGED <<requestVars, coreVars, rate_limiter, bucket, admitted, resp>>

\* The period ends: the store's buckets are full again.
NewPeriod ==
    /\ \E c \in Clients : admitted[c] > 0
    /\ bucket' = [key \in RateLimiterKeys |-> 0]
    /\ admitted' = [c \in Clients |-> 0]
    /\ UNCHANGED <<requestVars, coreVars, rate_limiter, user_keys, resp>>

\* The other instances of the proxy, which share the store, use a key's
\* budget up to its last token.
OtherInstances(key) ==
    /\ IsSome(rate_limiter)
    /\ bucket[key] < BudgetOf(key) - 1
    /\ bucket' = [bucket EXCEPT ![key] = BudgetOf(key) - 1]
    /\ UNCHANGED <<requestVars, coreVars, rate_limiter, user_keys, admitted, resp>>

RequestIdle ==
    /\ now = 0
    /\ handles = [h \in Handles |-> NoHandle]
    /\ hard_limit_until = [r \in Rpcs |-> None]
    /\ new_head_client = [r \in Rpcs |-> None]
    /\ active_in_flight = [r \in Rpcs |-> 0]
    /\ tasks = [h \in Handles |-> None]
    /\ revert_log = <<>>
    /\ last = NoCall

InitFrontend == RequestIdle /\ CoreIdle /\ RateLimitByIpInit

NextFrontend ==
    \/ \E ip \in Ips, store_ok \in BOOLEAN : RateLimitByIp(ip, store_ok)
    \/ \E k \in ApiKeys, db_ok \in BOOLEAN, store_ok \in BOOLEAN :
          RateLimitByKey(k, db_ok, store_ok)
    \/ \E k \in ApiKeys : \E rows \in UserKeyRows(k) : SetUserKey(k, rows)
    \/ NewPeriod
    \/ \E key \in RateLimiterKeys : OtherInstances(key)

SpecFrontend == InitFrontend /\ [][NextFrontend]_vars

---------------------------------------------------------------------------
\* The response cache with single-flight (sections 4.4 and 4.5).

MaxDispatches == 3

Callers == {"c1", "c2", "c3"}

\* RequestFingerprint
Fingerprints == {"f1", "f2"}

\* What a dispatch ends with: a value, a revert, or a transient failure.
Outcomes == {"v1", "v2", "revert", "transient"}

NoCaller == [pc |-> "idle", fingerprint |-> "-", future |-> 0, response |-> "-"]

InitCache ==
    /\ RequestIdle
    /\ FrontendIdle
    /\ RouterIdle
    /\ PoolIdle
    /\ MetricIdle
    /\ UsersIdle
    /\ cache = {}
    /\ callers = [c \in Callers |-> NoCaller]
    /\ dispatched = 0

\* A lookup that takes only a resolved entry for a hit.
LookupResolved(f) == {e \in cache : e.fingerprint = f /\ e.state = "resolved"}

\* Consult the cache: an entry of the fingerprint, resolved or pending, is a hit.
Lookup(f) == {e \in cache : e.fingerprint = f}

\* A caller asks for f.  On a hit it takes the entry's path: the value of a
\* resolved entry, the future of a pending one.  On a miss it inserts a
\* pending entry and dispatches.
Call(c, f) ==
    /\ callers[c].pc = "idle"
    /\ IF Lookup(f) # {}
       THEN /\ \E e \in Lookup(f) :
                  callers' = [callers EXCEPT ![c] =
                      [pc |-> IF e.state = "resolved" THEN "done" ELSE "waiting",
                       fingerprint |-> f, future |-> e.future, response |-> e.value]]
            /\ UNCHANGED <<cache, dispatched>>
       ELSE /\ dispatched < MaxDispatches
            /\ dispatched' = dispatched + 1
            /\ cache' = cache \cup {[fingerprint |-> f, state |-> "pending",
                                     future |-> dispatched + 1, value |-> "-"]}
            /\ callers' = [callers EXCEPT ![c] =
                   [pc |-> "dispatching", fingerprint |-> f,
                    future |-> dispatched + 1, response |-> "-"]]
    /\ UNCHANGED notCacheVars

\* The dispatch of a caller ends and its future completes: the caller and
\* the callers attached to the future get the outcome.  A value or a revert
\* resolves the entry; a transient failure removes the pending entry.
Complete(c, outcome) ==
    /\ callers[c].pc = "dispatching"
    /\ cache' = IF outcome = "transient"
                THEN {e \in cache : e.future # callers[c].future}
                ELSE {IF e.future = callers[c].future
                      THEN [e EXCEPT !.state = "resolved", !.value = outcome]
                      ELSE e : e \in cache}
    /\ callers' = [d \in Callers |->
                      IF d = c \/ (callers[d].pc = "waiting"
                                   /\ callers[d].future = callers[c].future)
                      THEN [callers[d] EXCEPT !.pc = "done", !.response = outcome]
                      ELSE callers[d]]
    /\ UNCHANGED <<dispatched, notCacheVars>>

\* The caller drops its request while it waits for the future.
Cancel(c) ==
    /\ callers[c].pc = "waiting"
    /\ callers' = [callers EXCEPT ![c] = NoCaller]
    /\ UNCHANGED <<cache, dispatched, notCacheVars>>

\* A resolved entry expires and is evicted.
Evict(e) ==
    /\ e \in cache
    /\ e.state = "resolved"
    /\ cache' = cache \ {e}
    /\ UNCHANGED <<callers, dispatched, notCacheVars>>

\* The caller has its response and goes on to its next call.
Done(c) ==
    /\ callers[c].pc = "done"
    /\ callers' = [callers EXCEPT ![c] = NoCaller]
    /\ UNCHANGED <<cache, dispatched, notCacheVars>>

NextCache ==
    \/ \E c \in Callers, f \in Fingerprints : Call(c, f)
    \/ \E c \in Callers, outcome \in Outcomes : Complete(c, outcome)
    \/ \E c \in Callers : Cancel(c)
    \/ \E e \in cache : Evict(e)
    \/ \E c \in Callers : Done(c)

SpecCache == InitCache /\ [][NextCache]_vars

---------------------------------------------------------------------------
\* The request router (sections 4.3 and 4.5).

max_tries == 3

Upstreams == {"a", "b", "c", "d"}

\* The tier of an upstream: the backups are the higher tier.
Tier(u) == IF u \in {"a", "b"} THEN "primary" ELSE "backup"

\* Failure classification of a dispatched call (section 4.2).
AttemptOutcomes == {"ok", "transient", "rate-limited", "revert"}

NoRoute == [pc |-> "idle", attempts |-> 0, tried |-> {}, upstream |-> "-",
            looked |-> {}, result |-> None]

InitRouter ==
    /\ RequestIdle
    /\ FrontendIdle
    /\ CacheIdle
    /\ PoolIdle
    /\ MetricIdle
    /\ UsersIdle
    /\ route = NoRoute
    /\ eligible \in [Upstreams -> BOOLEAN]
    /\ usage = <<>>

\* The eligible subset of a tier: its eligible upstreams this call has not tried.
EligibleSubset(tier) ==
    {u \in Upstreams : Tier(u) = tier /\ eligible[u] /\ u \notin route.tried}

\* A selection that does not escalate to the backup tier.
CandidatesPrimary(primary, backup) == primary

\* The upstreams to choose from: the primary tier's eligible subset, and the
\* backup tier's if that is empty.
Candidates(primary, backup) == IF primary = {} THEN backup ELSE primary

\* The tiers a selection consulted.
Looked(primary) == IF primary = {} THEN {"primary", "backup"} ELSE {"primary"}

\* A retry bound that is off by one.
MayRetryOnceMore(attempts) == attempts <= max_tries

\* Whether a call that has made this many attempts may make another.
MayRetry(attempts) == attempts < max_tries

\* A call enters the router.
StartCall ==
    /\ route.pc = "idle"
    /\ route' = [NoRoute EXCEPT !.pc = "routing"]
    /\ UNCHANGED <<eligible, usage, notRouterVars>>

\* The router opens a request: it chooses an upstream of the eligible subset,
\* escalating to the backup tier, and with none to choose the call fails:
\* NotReady(backup_attempted) on its first attempt, UpstreamError after
\* failed attempts.
OpenRequest ==
    /\ route.pc = "routing"
    /\ LET primary == EligibleSubset("primary")
           backup == EligibleSubset("backup")
           candidates == Candidates(primary, backup)
       IN  IF candidates = {}
           THEN route' = [route EXCEPT
                    !.pc = "done",
                    !.looked = Looked(primary),
                    !.result = IF route.attempts = 0
                               THEN Some([kind |-> "NotReady",
                                          backup |-> "backup" \in Looked(primary)])
                               ELSE Some([kind |-> "UpstreamError", backup |-> FALSE])]
           ELSE \E u \in candidates :
                    route' = [route EXCEPT
                        !.pc = "dispatched", !.upstream = u,
                        !.looked = Looked(primary),
                        !.attempts = @ + 1, !.tried = @ \cup {u}]
    /\ UNCHANGED <<eligible, usage, notRouterVars>>

\* The dispatch ends: the attempt is reported; success and revert return to
\* the caller, a rate-limited upstream is skipped, and after a failure the
\* next eligible upstream is tried, up to max_tries attempts.
Answer(outcome) ==
    /\ route.pc = "dispatched"
    /\ usage' = Append(usage, [attempt |-> route.attempts, outcome |-> outcome])
    /\ eligible' = IF outcome = "rate-limited"
                   THEN [eligible EXCEPT ![route.upstream] = FALSE] ELSE eligible
    /\ route' =
           IF outcome = "ok"
           THEN [route EXCEPT !.pc = "done",
                              !.result = Some([kind |-> "Ok", backup |-> FALSE])]
           ELSE IF outcome = "revert"
           THEN [route EXCEPT !.pc = "done",
                              !.result = Some([kind |-> "Revert", backup |-> FALSE])]
           ELSE IF MayRetry(route.attempts)
           THEN [route EXCEPT !.pc = "routing"]
           ELSE [route EXCEPT !.pc = "done",
                              !.result = Some([kind |-> "UpstreamError",
                                               backup |-> FALSE])]
    /\ UNCHANGED notRouterVars

\* The caller has the result.
Return ==
    /\ route.pc = "done"
    /\ route' = NoRoute
    /\ usage' = <<>>
    /\ UNCHANGED <<eligible, notRouterVars>>

\* The pool: an upstream becomes eligible or stops being eligible.
SetEligible(u) ==
    /\ eligible' = [eligible EXCEPT ![u] = ~@]
    /\ UNCHANGED <<route, usage, notRouterVars>>

NextRouter ==
    \/ StartCall
    \/ OpenRequest
    \/ \E outcome \in AttemptOutcomes : Answer(outcome)
    \/ Return
    \/ \E u \in Upstreams : SetEligible(u)

SpecRouter == InitRouter /\ [][NextRouter]_vars

---------------------------------------------------------------------------
\* The upstream pool's consensus head (section 4.3).

MaxBlock == 3

reorg_depth == 1

\* A block: its number and the chain branch it is on.  Two blocks have the
\* same hash exactly when they are the same block.
Branches == {"x", "y"}

Blocks == [number : 1..MaxBlock, branch : Branches]

InitPool ==
    /\ RequestIdle
    /\ FrontendIdle
    /\ CacheIdle
    /\ RouterIdle
    /\ UsersIdle
    /\ MetricIdle
    /\ heads = [u \in Upstreams |-> None]
    /\ consensus = None
    /\ aged = FALSE

\* Step 1: the heads of the upstreams whose head is newer than max_head_age.
Reported(hs) == {hs[u][1] : u \in {v \in Upstreams : IsSome(hs[v])}}

\* Step 2: the score of a block's group.  Every upstream has weight 1.
Score(hs, b) == Cardinality({u \in Upstreams : hs[u] = Some(b)})

\* Step 3: the groups of the highest score, and among them of the highest
\* block number.  The most recent observation decides among those left.
Best(hs) ==
    LET reported == Reported(hs)
        score == [b \in reported |-> Score(hs, b)]
    IN  {b \in reported :
            \A c \in reported :
                \/ score[b] > score[c]
                \/ score[b] = score[c] /\ b.number >= c.number}

\* A pool that records every selected head.
AcceptsAll(current, b, stale) == TRUE

\* Step 5: the selected head is recorded only if it is no more than
\* reorg_depth behind the current one, or the current one has aged past
\* consensus_staleness.
Accepts(current, b, stale) ==
    \/ current = None
    \/ b.number >= current[1].number - reorg_depth
    \/ stale

\* An upstream publishes a head and the pool recomputes the consensus.
Publish(u, b) ==
    /\ heads[u] # Some(b)
    /\ heads' = [heads EXCEPT ![u] = Some(b)]
    /\ \E selected \in Best([heads EXCEPT ![u] = Some(b)]) :
          IF Accepts(consensus, selected, aged) /\ consensus # Some(selected)
          THEN consensus' = Some(selected) /\ aged' = FALSE
          ELSE UNCHANGED <<consensus, aged>>
    /\ UNCHANGED notPoolVars

\* The head of an upstream grows older than max_head_age.
HeadExpires(u) ==
    /\ IsSome(heads[u])
    /\ heads' = [heads EXCEPT ![u] = None]
    /\ UNCHANGED <<consensus, aged, notPoolVars>>

\* The published head ages past consensus_staleness.
Age ==
    /\ IsSome(consensus)
    /\ ~aged
    /\ aged' = TRUE
    /\ UNCHANGED <<heads, consensus, notPoolVars>>

NextPool ==
    \/ \E u \in Upstreams, b \in Blocks : Publish(u, b)
    \/ \E u \in Upstreams : HeadExpires(u)
    \/ Age

SpecPool == InitPool /\ [][NextPool]_vars

---------------------------------------------------------------------------
\* Registration and login (frontend/users/authentication.rs), for the
\* requests login_is_authorized admits and a configured database.  A
\* statement on the database fails only where the handler has a branch for
\* its failure.

MaxUlid == 4

MaxPeriods == 1

expire_seconds == 20 * 60

\* The instants the clock shows after 0: the second after a message issued
\* at the instant before has expired, when its row has expired too.
Instants == {k * (expire_seconds + 1) : k \in 1..MaxPeriods}

\* chrono::Duration::weeks(4), in seconds.
FourWeeks == 4 * 7 * 24 * 60 * 60

Posters == {"p1", "p2"}

\* The rows the pending_login table holds at most.
MaxPending == Cardinality(Posters)

Addresses == {"A", "B"}

login_domain == "llamanodes.com"

Domains == {login_domain, "example.com"}

statement == "llamas"

Statements == {statement, "other"}

InviteCodes == {None, Some("invite")}

\* The referrer table.  No handler of the model writes it.
referrer == {[id |-> 1, referral_code |-> "known"]}

ReferralCodes == {None, Some("known"), Some("unknown")}

\* The values of the path parameter message_eip; it defaults to eip4361.
MessageEips == {"eip4361", "eip191_bytes", "eip191_hash"}

\* The siwe::Message of a pending login.
SiweMessage(address, expiration_time, nonce) == [domain |-> login_domain, address |-> address, statement |-> statement, expiration_time |-> expiration_time, nonce |-> nonce]

\* A text a client holds or posts: a message in one of the encodings.  "hex"
\* is the eip4361 text, hex encoded by the client.
Encoded(encoding, message) == [encoding |-> encoding, message |-> message]

\* payload.msg parsed as a siwe::Message.  The eip4361 text parses, hex
\* encoded or not; the prefixed bytes and the hash of EIP-191 do not.
Parse(msg) == IF msg.encoding \in {"eip4361", "hex"} THEN Some(msg.message) ELSE None

\* UserBearerToken::from_str: 0 stands for a text that is no Ulid.
IsUlid(n) == n > 0

\* A signature of 65 bytes: the key that signed and the message it signed.
Sign(key, message) == [len |-> 65, signer |-> key, message |-> message]

\* The signature with its last byte lost.
Truncated(sig) == [sig EXCEPT !.len = 64]

\* Message::verify_eip191: the signature recovers to the message's address.
verify_eip191(our_msg, sig) == sig.signer = our_msg.address /\ sig.message = our_msg

\* Message::verify with the default options: the message is valid now and
\* the signature recovers to its address.
verify(our_msg, sig, t) == t < our_msg.expiration_time /\ verify_eip191(our_msg, sig)

NoPost == [pc |-> "idle", their_msg |-> None, user_pending_login |-> None, caller |-> None, response |-> None]

\* An Err the handler returns.
Err(error) == [status |-> error, bearer_token |-> None, user |-> None]

\* The request has returned this response.
Responded(response) == [NoPost EXCEPT !.pc = "done", !.response = Some(response)]

InitAuth ==
    /\ RequestIdle
    /\ FrontendIdle
    /\ CacheIdle
    /\ RouterIdle
    /\ PoolIdle
    /\ MetricIdle
    /\ QueryIdle
    /\ utc = 0
    /\ config \in [invite_code : InviteCodes]
    /\ db_conn = NoRows
    /\ db_replica = Replica(NoRows)
    /\ ulids = 0
    /\ got = None
    /\ posts = [p \in Posters |-> NoPost]
    /\ logout = None

\* Time passes.
Pass ==
    /\ \E t \in Instants : t > utc /\ utc' = t
    /\ UNCHANGED <<config, db_conn, db_replica, ulids, got, posts, logout, notAuthVars>>

\* The read replica catches up with the primary.
Replicate ==
    /\ db_replica # Replica(db_conn)
    /\ db_replica' = Replica(db_conn)
    /\ UNCHANGED <<utc, config, db_conn, ulids, got, posts, logout, notAuthVars>>

\* GET /user/login/:user_address and GET /user/login/:user_address/:message_eip
user_login_get(user_address, message_eip) ==
    /\ ulids < MaxUlid
    /\ Cardinality(db_conn.pending_login) < MaxPending
    /\ LET nonce == ulids + 1
           expiration_time == utc + expire_seconds
           message == SiweMessage(user_address, expiration_time, nonce)
           user_pending_login == [nonce |-> nonce, message |-> message, expires_at |-> expiration_time + 1]
       IN  /\ ulids' = nonce
           /\ db_conn' = [db_conn EXCEPT !.pending_login = @ \cup {user_pending_login}]
           /\ got' = IF message_eip \in MessageEips THEN Some(Encoded(message_eip, message)) ELSE Some(Encoded("InvalidEip", message))
    /\ UNCHANGED <<utc, config, db_replica, posts, logout, notAuthVars>>

\* The messages of the pending logins, on the primary or on the replica.
Held == {r.message : r \in db_conn.pending_login \cup db_replica.pending_login}

\* What a client may post for a message: its text as is or hex encoded, the
\* bytes of eip191_bytes or of eip191_hash, or the text with another address
\* or another nonce.
PostedFor(m) == {Encoded(e, m) : e \in MessageEips \cup {"hex"}} \cup {Encoded("eip4361", [m EXCEPT !.address = a]) : a \in Addresses} \cup {Encoded("eip4361", [m EXCEPT !.nonce = n]) : n \in 0..ulids}

PostedMessages == UNION {PostedFor(m) : m \in Held}

\* The signatures a client may post: any key's signature of a message, whole
\* or truncated.
Signatures == LET whole == {Sign(k, m) : k \in Addresses, m \in Held} IN whole \cup {Truncated(sig) : sig \in whole}

\* The address the caller is looked up by.
CallerAddressTheirs(their_msg, our_msg) == their_msg.address

CallerAddress(their_msg, our_msg) == our_msg.address

\* user::Entity::find().filter(Address.eq(address)).one(db_replica): one of
\* the rows the replica shows for the address, if there is one.
FindUser(address) == LET rows == {u \in db_replica.user : u.address = address} IN IF rows = {} THEN {None} ELSE {Some(u) : u \in rows}

\* pending_login::Entity::find().filter(Nonce.eq(nonce)).one(db_replica)
FindPendingLogin(nonce) == LET rows == {r \in db_replica.pending_login : r.nonce = nonce} IN IF rows = {} THEN {None} ELSE {Some(r) : r \in rows}

\* A delete of every pending_login row, expired or not.
DeleteEveryPendingLogin(db, t) == [db EXCEPT !.pending_login = {}]

\* The delete of ALL expired pending_login rows.
DeleteExpiredPendingLogins(db, t) == [db EXCEPT !.pending_login = {r \in @ : ~(r.expires_at <= t)}]

\* user_login_post from the parsing of the signature to the lookup of the
\* caller: what the rest of the handler goes on with (the row it found and
\* the caller) or the error it returns, and the tables it leaves.
Verified(msg, sig, row, caller) ==
    LET their_msg == Parse(msg)
        kept(response) == [post |-> Responded(response), db |-> db_conn]
    IN  IF sig.len # 65 THEN kept(Err("InvalidSignatureLength"))
        ELSE IF ~IsSome(their_msg) THEN kept(Err("parsing message"))
        ELSE IF ~IsUlid(their_msg[1].nonce) THEN kept(Err("UlidDecode"))
        ELSE IF ~IsSome(row) THEN kept(Err("login nonce not found"))
        ELSE IF ~verify(row[1].message, sig, utc) /\ ~verify_eip191(row[1].message, sig)
             THEN [post |-> [Responded(Err("EipVerificationFailed")) EXCEPT !.user_pending_login = row], db |-> DeleteExpiredPendingLogins(db_conn, utc)]
        ELSE [post |-> [NoPost EXCEPT !.pc = "verified", !.their_msg = their_msg, !.user_pending_login = row, !.caller = caller], db |-> db_conn]

\* The rows the lookups of a post may return.
PendingLoginsOf(msg) == IF IsSome(Parse(msg)) THEN FindPendingLogin(Parse(msg)[1].nonce) ELSE {None}

CallersOf(msg, row) == IF IsSome(Parse(msg)) /\ IsSome(row) THEN FindUser(CallerAddress(Parse(msg)[1], row[1].message)) ELSE {None}

\* POST /user/login, lines 158-248.
LoginPostVerify(p) ==
    /\ posts[p].pc = "idle"
    /\ \E msg \in PostedMessages, sig \in Signatures :
          \E row \in PendingLoginsOf(msg) :
             \E caller \in CallersOf(msg, row) :
                LET v == Verified(msg, sig, row, caller)
                IN  /\ posts' = [posts EXCEPT ![p] = v.post]
                    /\ db_conn' = v.db
    /\ UNCHANGED <<utc, config, db_replica, ulids, got, logout, notAuthVars>>

\* The rows a first login creates in one transaction.
WithNewUser(db, new) == [db EXCEPT !.user = @ \cup {new}, !.rpc_key = @ \cup {[user_id |-> new.id]}, !.balance = @ \cup {[user_id |-> new.id, available_balance |-> 0, used_balance |-> 0]}]

WithReferee(db, code, user_id) == [db EXCEPT !.referee = @ \cup {[used_referral_code |-> code, user_id |-> user_id]}]

KnownReferralCode(referral_code) == \E r \in referrer : Some(r.referral_code) = referral_code

\* The login row and the delete of the pending login, which may fail.
WithLogin(db, row, token, user_id, delete_ok) == [db EXCEPT !.login = @ \cup {[bearer_token |-> token, user_id |-> user_id, expires_at |-> utc + FourWeeks]}, !.pending_login = IF delete_ok THEN @ \ {row} ELSE @]

\* user_login_post from the match on the caller to its end, lines 250-430:
\* the response and the tables it leaves.
Saved(row, caller, invite_code, referral_code, insert_ok, delete_ok) ==
    LET token == ulids + 1
        new == [id |-> Cardinality(db_conn.user) + 1, address |-> row.message.address]
        accepted(db, status, user) == [response |-> [status |-> status, bearer_token |-> Some(token), user |-> Some(user)], db |-> WithLogin(db, row, token, user.id, delete_ok)]
    IN  IF ~IsSome(caller)
        THEN IF IsSome(config.invite_code) /\ invite_code # config.invite_code
                THEN [response |-> Err("InvalidInviteCode"), db |-> db_conn]
             ELSE IF ~insert_ok THEN [response |-> Err("Database"), db |-> db_conn]
             ELSE IF ~IsSome(referral_code) THEN accepted(WithNewUser(db_conn, new), "CREATED", new)
             ELSE IF ~KnownReferralCode(referral_code)
                THEN [response |-> Err("UnknownReferralCode"), db |-> WithNewUser(db_conn, new)]
             ELSE accepted(WithReferee(WithNewUser(db_conn, new), referral_code[1], new.id), "CREATED", new)
        ELSE IF ~IsSome(referral_code) THEN accepted(db_conn, "OK", caller[1])
             ELSE IF ~KnownReferralCode(referral_code) THEN [response |-> Err("BadRequest"), db |-> db_conn]
             ELSE accepted(WithReferee(db_conn, referral_code[1], caller[1].id), "OK", caller[1])

\* Whether the insert of a user may succeed or fail: the schema of the user
\* table is not part of the handler, so an insert of a second row for an
\* address may do either.
InsertOutcomes(row, caller) == IF ~IsSome(caller) /\ \E u \in db_conn.user : u.address = row.message.address THEN BOOLEAN ELSE {TRUE}

\* POST /user/login, lines 250-430.
LoginPostSave(p) ==
    /\ posts[p].pc = "verified"
    /\ ulids < MaxUlid
    /\ \E invite_code \in InviteCodes, referral_code \in ReferralCodes, delete_ok \in BOOLEAN :
          \E insert_ok \in InsertOutcomes(posts[p].user_pending_login[1], posts[p].caller) :
             LET s == Saved(posts[p].user_pending_login[1], posts[p].caller, invite_code, referral_code, insert_ok, delete_ok)
             IN  /\ posts' = [posts EXCEPT ![p] = [Responded(s.response) EXCEPT !.user_pending_login = posts[p].user_pending_login]]
                 /\ db_conn' = s.db
                 /\ ulids' = IF IsSome(s.response.bearer_token) THEN ulids + 1 ELSE ulids
    /\ UNCHANGED <<utc, config, db_replica, got, logout, notAuthVars>>

\* POST /user/logout with a bearer token; 0 stands for a text that is no
\* Ulid.  The three deletes may fail, and none of their failures is returned.
user_logout_post(bearer, deleted, expired_logins, expired_pending_logins) ==
    /\ IF ~IsUlid(bearer)
          THEN /\ logout' = Some([bearer |-> bearer, now |-> utc, response |-> "UlidDecode"])
               /\ UNCHANGED db_conn
          ELSE /\ logout' = Some([bearer |-> bearer, now |-> utc, response |-> "goodbye"])
               /\ db_conn' = [db_conn EXCEPT !.login = {l \in @ : /\ (deleted => l.bearer_token # bearer)
                                                                   /\ (expired_logins \/ expired_pending_logins => ~(l.expires_at <= utc))}]
    /\ UNCHANGED <<utc, config, db_replica, ulids, got, posts, notAuthVars>>

\* No handler of POST /user/login is between its two steps.
NoneVerified == \A p \in Posters : posts[p].pc # "verified"

\* Logins through the default route GET /user/login/:user_address, each
\* poster posting once and the posts handled one after the other.
NextAuth ==
    \/ Pass
    \/ Replicate
    \/ \E a \in Addresses : user_login_get(a, "eip4361")
    \/ \E p \in Posters : NoneVerified /\ LoginPostVerify(p)
    \/ \E p \in Posters : LoginPostSave(p)

SpecAuth == InitAuth /\ [][NextAuth]_vars

OnePoster == {"p1"}

\* The logins of one client.
NextLogin ==
    \/ Pass
    \/ Replicate
    \/ \E a \in Addresses : user_login_get(a, "eip4361")
    \/ \E p \in OnePoster : LoginPostVerify(p)
    \/ \E p \in OnePoster : LoginPostSave(p)

SpecLogin == InitAuth /\ [][NextLogin]_vars

\* The login rows a logout may find: every bearer token is a Ulid of its
\* own, and a row expires four weeks after its login.
LoginRows == [bearer_token : 1..MaxUlid, user_id : 1..Cardinality(Addresses), expires_at : Instants \cup {FourWeeks}]

\* The pending logins of GET /user/login at time 0 that may wait for their
\* POST.
PendingLoginRows == {[nonce |-> n, message |-> SiweMessage("A", expire_seconds, n), expires_at |-> expire_seconds + 1] : n \in 1..Cardinality(Posters)}

InitLogout ==
    /\ RequestIdle
    /\ FrontendIdle
    /\ CacheIdle
    /\ RouterIdle
    /\ PoolIdle
    /\ MetricIdle
    /\ QueryIdle
    /\ utc = 0
    /\ config = [invite_code |-> None]
    /\ \E rows \in SUBSET LoginRows, pending \in SUBSET PendingLoginRows :
          /\ \A l, m \in rows : l.bearer_token = m.bearer_token => l = m
          /\ db_conn = [NoRows EXCEPT !.login = rows, !.pending_login = pending]
    /\ db_replica = Replica(NoRows)
    /\ ulids = MaxUlid
    /\ got = None
    /\ posts = <<>>
    /\ logout = None

NextLogout ==
    \/ Pass
    \/ \E t \in 0..ulids, d \in BOOLEAN, e \in BOOLEAN, f \in BOOLEAN : user_logout_post(t, d, e, f)

SpecLogout == InitLogout /\ [][NextLogout]_vars

---------------------------------------------------------------------------
\* The user a statistics query is for (user_queries.rs).

MaxUserId == 2

\* The bearer header of a request: none, or a token; 0 stands for a text
\* that is no Ulid.
Bearers == {None} \cup {Some(t) : t \in 0..MaxUlid}

\* The user_id parameter of a request: none, or a text; -1 stands for a text
\* that is no u64.
UserIdParams == {None} \cup {Some(x) : x \in -1..MaxUserId}

\* str::parse::<u64>
ParseU64(x) == IF x >= 0 THEN Some(x) ELSE None

Ok(value) == <<"Ok", value>>

Error(message) == <<"Err", message>>

\* The store holds a user id for some bearer cache keys.
InitUserQueries ==
    /\ RequestIdle
    /\ FrontendIdle
    /\ CacheIdle
    /\ RouterIdle
    /\ PoolIdle
    /\ MetricIdle
    /\ AuthIdle
    /\ redis \in [1..MaxUlid -> {None} \cup {Some(u) : u \in 1..MaxUserId}]
    /\ stats = None

\* What get_user_id_from_params returns.
UserIdFromParams(bearer, user_id) ==
    IF IsSome(bearer) /\ IsSome(user_id)
    THEN IF ~IsUlid(bearer[1]) THEN Error("UlidDecode")
         ELSE IF ~IsSome(redis[bearer[1]]) THEN Error("fetching rpc_key_id from redis with bearer_cache_key")
         ELSE IF ~IsSome(ParseU64(user_id[1])) THEN Error("Parsing user_id param")
         ELSE IF redis[bearer[1]][1] # ParseU64(user_id[1])[1] THEN Error("permission denied")
         ELSE Ok(redis[bearer[1]][1])
    ELSE IF ~IsSome(user_id) THEN Ok(0)
    ELSE IF ~IsSome(ParseU64(user_id[1])) THEN Error("ParseIntError")
    ELSE Ok(ParseU64(user_id[1])[1])

get_user_id_from_params(bearer, user_id) ==
    /\ stats' = Some([bearer |-> bearer, user_id |-> user_id, result |-> UserIdFromParams(bearer, user_id)])
    /\ UNCHANGED <<redis, notQueryVars>>

NextUserQueries == \E bearer \in Bearers, user_id \in UserIdParams : get_user_id_from_params(bearer, user_id)

SpecUserQueries == InitUserQueries /\ [][NextUserQueries]_vars

---------------------------------------------------------------------------
\* metered/jsonrpc_error_count.rs: the metric JsonRpcErrorCount over the
\* measured calls of a provider, which threads make concurrently.

MaxCalls == 3

Threads == {"t1", "t2", "t3"}

\* Result<T, ProviderError>: Ok, and the errors by variant.
ProviderResults == {"Ok", "JsonRpcClientError", "EnsError", "SerdeJson"}

\* JsonRpcErrorCount::default().
InitMetric ==
    /\ RequestIdle
    /\ FrontendIdle
    /\ CacheIdle
    /\ RouterIdle
    /\ PoolIdle
    /\ UsersIdle
    /\ error_count = 0
    /\ measured = [t \in Threads |-> None]
    /\ on_results = [r \in ProviderResults |-> 0]

\* The number of on_result calls since the latest clear.
OnResults == on_results["Ok"] + on_results["JsonRpcClientError"] + on_results["EnsError"] + on_results["SerdeJson"]

\* The arms of on_result's match that count the result.
CountsEveryErr(r) == r # "Ok"

Counts(r) == r = "JsonRpcClientError"

\* Counter::incr of AtomicInt<u64>: one atomic read-modify-write.  MaxCalls
\* keeps the counter far below 2^64.
incr(c) == c + 1

\* The measured expression of a thread returns r.
Measure(t, r) ==
    /\ measured[t] = None
    /\ measured' = [measured EXCEPT ![t] = Some(r)]
    /\ UNCHANGED <<error_count, on_results, notMetricVars>>

\* JsonRpcErrorCount::on_result with the result of the thread's call.
on_result(t) ==
    /\ IsSome(measured[t])
    /\ OnResults < MaxCalls
    /\ error_count' = IF Counts(measured[t][1]) THEN incr(error_count) ELSE error_count
    /\ on_results' = [on_results EXCEPT ![measured[t][1]] = @ + 1]
    /\ measured' = [measured EXCEPT ![t] = None]
    /\ UNCHANGED notMetricVars

\* JsonRpcErrorCount::clear.
clear ==
    /\ error_count' = 0
    /\ on_results' = [r \in ProviderResults |-> 0]
    /\ UNCHANGED <<measured, notMetricVars>>

NextMetric ==
    \/ \E t \in Threads, r \in ProviderResults : Measure(t, r)
    \/ \E t \in Threads : on_result(t)
    \/ clear

SpecMetric == InitMetric /\ [][NextMetric]_vars

---------------------------------------------------------------------------
\* The properties.

\* The handles alive on an upstream: made and not yet dropped.
LiveHandles(r) == {h \in Handles : handles[h].pc # "free" /\ handles[h].conn = r}

\* C1: for every upstream, active_in_flight is at least 0 and equals the
\* number of OpenRequestHandles alive on it: making a handle increments the
\* count, dropping it decrements the count.
C1_ActiveInFlight ==
    \A r \in Rpcs :
        /\ active_in_flight[r] >= 0
        /\ active_in_flight[r] = Cardinality(LiveHandles(r))

\* A call of request() has just ended (returned or unwound) with this type.
Ended(response_type) == last.conn # "-" /\ last.response_type = response_type

C3_NeverRewound ==
    [][\A r \in Rpcs :
          IsSome(hard_limit_until[r])
          => /\ IsSome(hard_limit_until'[r])
             /\ hard_limit_until'[r][1] >= hard_limit_until[r][1]]_vars

\* The latest call ended with a JSON-RPC error that carries a message.
EndedWithMessage == last.conn # "-" /\ last.response.inner = "JsonRpcError"

\* C4, as stated: an error whose message contains `execution reverted`
\* anywhere is classified as a revert, for every provider kind.
C4_RevertAnywhere ==
    EndedWithMessage
    => (Contains(last.response.message, "execution reverted")
        => last.response_type = "Revert")

\* C4, amended: an error is classified as a revert exactly when its message
\* starts with `execution reverted`, for every provider kind.
C4_RevertAtStart ==
    EndedWithMessage
    => (last.response_type = "Revert"
        <=> StartsWith(last.response.message, "execution reverted"))

\* A call over the provider kind Both has ended classified as a revert, its
\* message going on after `execution reverted`.
C4_Witness ==
    /\ Ended("Revert")
    /\ last.provider = "Both"
    /\ Len(last.response.message) = 2

\* C5: every call of request() that got a result from the provider returns
\* exactly that result to its caller.
C5_ResultVerbatim ==
    last.conn # "-" => (last.returned /\ last.result = last.response)

NoActiveRow == ~\E row \in resp.rows : row.active

\* C7, as stated: rate_limit_by_key returns 403 exactly when no active row
\* with the api key exists; the limiter is then not called and the request
\* is not allowed.
C7_ForbiddenIffNoRow ==
    resp.fn = "rate_limit_by_key"
    => /\ resp.status = 403 <=> NoActiveRow
       /\ resp.status = 403 => resp.throttle = None

\* C7, amended: rate_limit_by_key returns 403 exactly when the user_keys
\* query succeeds and finds no active row with the api key, and 500 exactly
\* when the query fails; in both cases the limiter is not called and the
\* request is not allowed.
C7_ForbiddenIffQueryFindsNoRow ==
    resp.fn = "rate_limit_by_key"
    => /\ resp.status = 403 <=> (resp.db = "Ok" /\ NoActiveRow)
       /\ resp.status = 500 <=> resp.db = "Err"
       /\ resp.status \in {403, 500} => (resp.throttle = None /\ resp.store = "-")

\* rate_limit_by_key has answered 403 for a key whose row is not active,
\* with a store configured.
C7_Witness ==
    /\ resp.fn = "rate_limit_by_key"
    /\ resp.status = 403
    /\ resp.rows # {}
    /\ IsSome(rate_limiter)

\* C8: a request over the budget is answered 429 with a hint of when to
\* retry, and a request within the budget is never answered 429.
C8_TooManyRequests ==
    /\ resp.store = "Exhausted" => (resp.status = 429 /\ IsSome(resp.retry_after))
    /\ resp.status = 429 => resp.store = "Exhausted"

\* The budget of a client for one period.
BudgetOfClient(c) == IF c \in Ips THEN BudgetOf(IpKey(c)) ELSE BudgetOf(UserKey(c))

\* C9: with no store configured, a client is let through no more often than
\* its budget within one period.
C9_LocalBucket ==
    rate_limiter = None => \A c \in Clients : admitted[c] <= BudgetOfClient(c)

\* C10: every row of revert_log is of a call under the Save handler, of
\* eth_call or eth_estimateGas, with a database connection and an
\* rpc_secret_key_id.
C10_RevertLogOnlyIf ==
    \A i \in 1..Len(revert_log) :
        /\ revert_log[i].call.revert_handler = "Save"
        /\ revert_log[i].method \in SaveMethods
        /\ revert_log[i].call.db_conn
        /\ IsSome(revert_log[i].call.rpc_secret_key_id)

\* A revert has been saved.
C10_Witness == Len(revert_log) > 0

\* C11: for a failing eth_call or eth_estimateGas under the Save handler with
\* a database, the revert is handed to save_revert exactly when the value
\* drawn for the call is below log_revert_chance: never with a chance of 0,
\* always with a chance of 1.
C11_SavedIffDrawBelowChance ==
    IsSome(last.sampled)
    => LET chance == last.sampled[1].log_revert_chance
           d == last.sampled[1].draw
       IN  last.in_effect = "Save"
           <=> (chance = 100 \/ (chance # 0 /\ d < chance))

\* C12: a row is added to revert_log only by the save_revert of a call whose
\* error was classified as a revert.
C12_OnlyRevertsSaved ==
    [][\A h \in OneHandle :
          (IsSome(tasks[h]) /\ Len(revert_log') > Len(revert_log))
          => tasks[h][1].response_type = "Revert"]_vars

\* The caller is in flight: it dispatches, or awaits a pending future.
InFlight(c) == callers[c].pc \in {"dispatching", "waiting"}

\* C13: every fingerprint has at most one pending entry; the callers in
\* flight on one fingerprint share one future, a single one of them
\* dispatching; and the callers of one future get the same response.
C13_SingleFlight ==
    /\ \A f \in Fingerprints :
          Cardinality({e \in cache : e.fingerprint = f /\ e.state = "pending"}) <= 1
    /\ \A c1, c2 \in Callers :
          /\ (InFlight(c1) /\ InFlight(c2)
              /\ callers[c1].fingerprint = callers[c2].fingerprint)
             => /\ callers[c1].future = callers[c2].future
                /\ (c1 # c2 => ~(callers[c1].pc = "dispatching"
                                 /\ callers[c2].pc = "dispatching"))
          /\ (callers[c1].pc = "done" /\ callers[c2].pc = "done"
              /\ callers[c1].future = callers[c2].future)
             => callers[c1].response = callers[c2].response

\* Three callers of one fingerprint, one dispatch, have the same value.
C13_Witness ==
    /\ \A c \in Callers : callers[c].pc = "done" /\ callers[c].response = "v1"
    /\ \A c \in Callers : callers[c].fingerprint = "f1" /\ callers[c].future = 1
    /\ dispatched = 1

C16_NotReady ==
    [][(route.pc = "routing" /\ route'.pc = "done"
        /\ route'.result[1].kind = "NotReady")
       => /\ \A u \in Upstreams : ~eligible[u]
          /\ route'.result[1].backup <=> "backup" \in route'.looked
          /\ "backup" \in route'.looked]_vars

\* A call has ended NotReady(true).
C16_Witness ==
    /\ route.pc = "done"
    /\ route.result[1].kind = "NotReady"
    /\ route.result[1].backup

\* Three upstreams report b and the fourth reports a lower block.
ThreeAgree(b) ==
    /\ Cardinality({u \in Upstreams : heads[u] = Some(b)}) = 3
    /\ \E u \in Upstreams : IsSome(heads[u]) /\ heads[u][1].number < b.number

Returned4361(row) == Encoded("eip4361", row.message)

\* The response accepts the login and carries a bearer token of the user
\* with this address: the tables hold the token's login row for that user.
Accepts17(s, address) ==
    /\ s.response.status \in {"OK", "CREATED"}
    /\ IsSome(s.response.bearer_token)
    /\ IsSome(s.response.user)
    /\ s.response.user[1].address = address
    /\ \E l \in s.db.login : l.bearer_token = s.response.bearer_token[1] /\ l.user_id = s.response.user[1].id

\* C17: login round trip.  For any address A, the message GET /user/login/A
\* returned, signed by A's key and posted unmodified to POST /user/login
\* before it expires (with the invite code the configuration asks for), is
\* accepted, and the response carries a bearer token for the user with
\* address A, on a first login and on every later one.
C17_LoginRoundTrip ==
    \A row \in db_conn.pending_login :
        (utc < row.message.expiration_time /\ ulids < MaxUlid) =>
            \A found \in PendingLoginsOf(Returned4361(row)) :
                \A caller \in CallersOf(Returned4361(row), found) :
                    LET v == Verified(Returned4361(row), Sign(row.message.address, row.message), found, caller)
                    IN  /\ v.post.pc = "verified"
                        /\ \A delete_ok \in BOOLEAN :
                              \A insert_ok \in InsertOutcomes(found[1], caller) :
                                 Accepts17(Saved(found[1], caller, config.invite_code, None, insert_ok, delete_ok), row.message.address)

\* C18: get_user_id_from_params returns a non-zero user id u only if the
\* request presented a bearer token that the store maps to exactly u: a
\* request that names a user_id without a bearer token gets an error, one
\* whose bearer token maps to another user gets 'permission denied', and a
\* request with no user_id parameter gets 0 whatever its bearer token.
C18_UserIdNeedsBearer ==
    IsSome(stats) =>
        LET call == stats[1]
        IN  /\ (call.result[1] = "Ok" /\ call.result[2] # 0) =>
                  /\ IsSome(call.bearer)
                  /\ IsUlid(call.bearer[1])
                  /\ redis[call.bearer[1]] = Some(call.result[2])
            /\ (IsSome(call.user_id) /\ ~IsSome(call.bearer)) => call.result[1] = "Err"
            /\ (/\ IsSome(call.user_id) /\ IsSome(ParseU64(call.user_id[1]))
                /\ IsSome(call.bearer) /\ IsUlid(call.bearer[1]) /\ IsSome(redis[call.bearer[1]])
                /\ redis[call.bearer[1]] # ParseU64(call.user_id[1])) => call.result = Error("permission denied")
            /\ ~IsSome(call.user_id) => call.result = Ok(0)

\* The messages with the nonce of m and any other fields, in the encodings
\* that parse.
SameNonce(m) == {Encoded("hex", m)} \cup {Encoded("eip4361", [domain |-> d, address |-> a, statement |-> st, expiration_time |-> x, nonce |-> m.nonce]) : d \in Domains, a \in Addresses, st \in Statements, x \in {0, m.expiration_time}}

\* What the handler goes on with, or returns, after it has looked up the
\* caller for a posted message and signature: the row, the caller and the
\* tables, for every answer the replica may give.
Continuations(msg, sig) == UNION {{[Verified(msg, sig, row, caller) EXCEPT !.post.their_msg = None] : caller \in CallersOf(msg, row)} : row \in PendingLoginsOf(msg)}

\* The signatures of a message a client may post: a key's, whole, or one
\* that has lost a byte.
SignaturesOf(m) == {Sign(k, m) : k \in Addresses} \cup {Truncated(Sign(m.address, m))}

\* A message for every nonce a client may post.
Nonces == Held \cup {SiweMessage("A", 0, n) : n \in {k \in 0..ulids : \A m \in Held : m.nonce # k}}

\* C19: the outcome of POST /user/login depends on the posted message only
\* through its nonce.  Two posts with the same nonce and the same signature
\* whose messages differ in any other field (address, domain, expiration
\* time, statement) leave the handler with the same error or the same row
\* and caller, and the same tables: the signature is verified against the
\* stored message and the user is taken from the stored message's address.
C19_OnlyTheNonce ==
    \A m \in Nonces :
        \A sig \in SignaturesOf(m) :
            LET posted == Continuations(Encoded("eip4361", m), sig)
            IN  \A other \in SameNonce(m) : Continuations(other, sig) = posted

\* A post whose message names another address than the stored message has
\* been verified against the stored message.
C19_Witness ==
    \E p \in Posters :
        /\ posts[p].pc = "verified"
        /\ posts[p].their_msg[1].address # posts[p].user_pending_login[1].message.address
        /\ posts[p].their_msg[1].nonce = posts[p].user_pending_login[1].nonce

\* C20: after POST /user/logout with bearer token t has returned its
\* response, no login row with bearer_token = t remains.
C20_LoggedOut ==
    (IsSome(logout) /\ logout[1].response = "goodbye") =>
        \A l \in db_conn.login : l.bearer_token # logout[1].bearer

\* The key the specification gives the bucket of an authenticated client.
NamespacedUserKey(user_key) == <<"user:", user_key>>

\* C21: bucket keys are namespaced by class.  The limiter is called with the
\* key ip:<addr> for an anonymous client and with the key user:<uuid> for
\* an authenticated client, so the keys of the two classes differ.
C21_NamespacedKeys ==
    IsSome(resp.throttle) =>
        /\ resp.fn = "rate_limit_by_ip" => resp.throttle[1].key = IpKey(resp.client)
        /\ resp.fn = "rate_limit_by_key" => resp.throttle[1].key = NamespacedUserKey(resp.client)
        /\ \A ip \in Ips, user_key \in ApiKeys : IpKey(ip) # UserKey(user_key)

\* The requests per period the auth resolver gives a key: every key its own.
per_key_rps(user_key) == IF user_key = "k1" THEN 1 ELSE 2

\* C22: for an authenticated key the limiter is called with that key's own
\* budget: max burst, count per period and period are the values the auth
\* resolver gives the key, so two valid keys with different budgets are
\* limited at different counts.
C22_BudgetOfTheKey ==
    (resp.fn = "rate_limit_by_key" /\ IsSome(resp.throttle)) =>
        /\ resp.throttle[1].count_per_period = Some(per_key_rps(resp.client))
        /\ resp.throttle[1].max_burst = Some(per_key_rps(resp.client))
        /\ \A other \in ApiKeys : per_key_rps(other) # per_key_rps(resp.client) => BudgetOf(UserKey(other)) # BudgetOf(UserKey(resp.client))

C24_LogoutDeletesExpired ==
    (IsSome(logout) /\ logout[1].response = "goodbye") =>
        /\ \A l \in db_conn.login : ~(l.expires_at <= logout[1].now)
        /\ \A r \in db_conn.pending_login : ~(r.expires_at <= logout[1].now)

\* The posters whose POST /user/login has returned a bearer token.
TokenHolders == {p \in Posters : posts[p].pc = "done" /\ IsSome(posts[p].response[1].bearer_token)}

\* C25: each login nonce yields at most one bearer token.  No two posts that
\* have returned a bearer token were made with the same nonce, whether the
\* pending_login row could be deleted or not and whatever the replica shows.
C25_OneTokenPerNonce ==
    \A p, q \in TokenHolders :
        posts[p].user_pending_login[1].nonce = posts[q].user_pending_login[1].nonce => p = q

\* C26: a POST /user/login that arrives after the expiration_time of the
\* stored message is rejected: the handler does not go on to issue a bearer
\* token for it, whichever of verify and verify_eip191 accepts the signature.
C26_ExpiredIsRejected ==
    [][\A p \in Posters :
          (posts[p].pc = "idle" /\ posts'[p].pc = "verified") =>
              ~(utc > posts'[p].user_pending_login[1].message.expiration_time)]_vars

\* The rows of the tables a first login creates.
Created(db) == <<db.user, db.rpc_key, db.balance>>

\* C27: a POST /user/login that returns an error has created no user: after
\* an error response, UnknownReferralCode of a first login included, the
\* tables user, rpc_key and balance are as they were.
C27_ErrorCreatesNoUser ==
    [][\A p \in Posters :
          (/\ posts[p].pc # "done"
           /\ posts'[p].pc = "done"
           /\ posts'[p].response[1].status \notin {"CREATED", "OK"}) => Created(db_conn') = Created(db_conn)]_vars

\* The user rows with an address.
UsersOf(db, address) == {u \in db.user : u.address = address}

\* C29: on a verified login of an address no user has, exactly one user, one
\* rpc_key and one balance row with balances 0 and 0 are created, together,
\* and the status is 201; if a user with the address exists, none is created
\* and the status is 200.
C29_FirstLoginCreates ==
    [][\A p \in Posters :
          (posts[p].pc = "verified" /\ posts'[p].pc = "done") =>
              LET address == posts[p].user_pending_login[1].message.address
                  new == db_conn'.user \ db_conn.user
              IN  IF UsersOf(db_conn, address) = {}
                     THEN /\ posts'[p].response[1].status = "CREATED"
                          /\ Cardinality(new) = 1
                          /\ \A u \in new :
                                /\ u.address = address
                                /\ db_conn'.rpc_key \ db_conn.rpc_key = {[user_id |-> u.id]}
                                /\ db_conn'.balance \ db_conn.balance = {[user_id |-> u.id, available_balance |-> 0, used_balance |-> 0]}
                     ELSE /\ posts'[p].response[1].status = "OK"
                          /\ Created(db_conn') = Created(db_conn)]_vars

\* Neither verify nor verify_eip191 accepts the signature for the stored
\* message of the row.
BothChecksFail(row, sig) == ~verify(row.message, sig, utc) /\ ~verify_eip191(row.message, sig)

TransportError(response) == response.kind # "Ok" /\ response.inner # "JsonRpcError"

\* C31: a call that fails with a transport error on an upstream with a hard
\* limit sets the upstream's cooldown too: when the call ends,
\* hard_limit_until is at least a second after the clock.
C31_CooldownOnTransportError ==
    [][\A h \in OneHandle :
          (/\ handles[h].pc \in {"sent", "limit"}
           /\ handles'[h].pc = "free"
           /\ last'.conn = handles[h].conn
           /\ TransportError(last'.response)
           /\ IsSome(hard_limit_until[handles[h].conn]))
          => /\ IsSome(hard_limit_until'[handles[h].conn])
             /\ hard_limit_until'[handles[h].conn][1] >= now + 1]_vars

\* request() has been called on the handle and has not ended.
Requested(h) == handles[h].pc \in {"waiting", "sleeping", "sent", "limit"}

\* C32: every call of request() eventually ends: it returns a result or an
\* error (or unwinds), also when the upstream never gets a provider.
C32_RequestReturns == \A h \in OneHandle : Requested(h) ~> ~Requested(h)

====
